---- MODULE Spec2Model ----
(***************************************************************************)
(* Chain-of-custody ledger of the SupplyChainTracker class.  The class is  *)
(* defined twice in the repository, in supply_chain_tracker.py and in      *)
(* supplychain_entry.py; the variable impl says which of the two files the *)
(* tracker object was built from.  Definitions named after a method model  *)
(* supply_chain_tracker.py, definitions with the prefix Entry_ model the   *)
(* same method of supplychain_entry.py.                                    *)
(***************************************************************************)
EXTENDS Integers, Sequences, FiniteSets, TLC

VARIABLES impl, components_db, clock, call, ret, callers

vars == <<impl, components_db, clock, call, ret, callers>>

(***************************************************************************)
(* Bounds of the model.                                                    *)
(***************************************************************************)
\* longest custody chain a component is given
MaxChain == 3
\* last instant of the wall clock read by datetime.datetime.now()
MaxClock == 1

Impls == {"supply_chain_tracker", "supplychain_entry"}

(***************************************************************************)
(* Python values.                                                          *)
(* A dict with string keys is a function whose DOMAIN is its key set.      *)
(* A call either returns a value or raises KeyError(key).                  *)
(***************************************************************************)
Return(v) == [kind |-> "return", value |-> v]

Raise(k) == [kind |-> "raise", exc |-> "KeyError", key |-> k]

\* {}
EmptyDict == [k \in {} |-> k]

\* d.get(k, default)
Get(d, k, default) == IF k \in DOMAIN d THEN d[k] ELSE default

\* the keys of a subscript sequence d[k1], d[k2], ... that d does not have,
\* in evaluation order: the first one is the KeyError the sequence raises
MissingKeys(d, keys) == SelectSeq(keys, LAMBDA k : k \notin DOMAIN d)

\* f"{a}_{b}_{c}": the formatted segments joined by "_"
FString3(a, b, c) == <<a, "_", b, "_", c>>

\* f"MFG_{a}"
FStringMfg(a) == <<"MFG_", a>>

\* hashlib.sha256(s.encode()).hexdigest(): 64 hex digits that determine, and
\* are determined by, the input text (no collisions among the inputs used)
Sha256Hex(s) == [sha256 |-> s, digits |-> 64]

\* h[:n] of a hex digest
Prefix(h, n) == [h EXCEPT !.digits = IF @ < n THEN @ ELSE n]

\* datetime.datetime.now().isoformat() at instant t of the clock
IsoFormat(t) == <<"2026-01-01T00:00:00", "2026-01-01T00:00:01",
                  "2026-01-01T00:00:02", "2026-01-01T00:00:03">>[t + 1]

\* datetime.datetime.now().strftime("%Y-%m-%d %H:%M:%S") at instant t
StrFTime(t) == <<"2026-01-01 00:00:00", "2026-01-01 00:00:01",
                 "2026-01-01 00:00:02", "2026-01-01 00:00:03">>[t + 1]

\* int(datetime.datetime.now().timestamp()) at instant t
EpochSeconds(t) == 1767225600 + t

\* s is a prefix of t
IsPrefix(s, t) == Len(s) <= Len(t) /\ SubSeq(t, 1, Len(s)) = s

(***************************************************************************)
(* supply_chain_tracker.py                                                 *)
(***************************************************************************)
manufacturers_db ==
  [ IIT_MADRAS |->
      [name |-> "IIT Madras", certification |-> "INDIGENOUS_VERIFIED",
       speciality |-> "SHAKTI Processors", security_level |-> "TOP_SECRET",
       location |-> "Chennai, Tamil Nadu"],
    C_DAC |->
      [name |-> "Centre for Development of Advanced Computing",
       certification |-> "INDIGENOUS_VERIFIED",
       speciality |-> "Hardware Security Modules", security_level |-> "SECRET",
       location |-> "Pune, Maharashtra"],
    DRDO_LABS |->
      [name |-> "Defence Research and Development Organisation",
       certification |-> "INDIGENOUS_VERIFIED",
       speciality |-> "Anti-Tamper Enclosures", security_level |-> "TOP_SECRET",
       location |-> "New Delhi"],
    BEL_INDIA |->
      [name |-> "Bharat Electronics Limited",
       certification |-> "INDIGENOUS_VERIFIED",
       speciality |-> "Power Systems & Electronics", security_level |-> "SECRET",
       location |-> "Bangalore, Karnataka"],
    COSMIC_CIRCUITS |->
      [name |-> "Cosmic Circuits Private Limited",
       certification |-> "INDIGENOUS_VERIFIED",
       speciality |-> "PCB Manufacturing", security_level |-> "CONFIDENTIAL",
       location |-> "Noida, Uttar Pradesh"],
    TEJAS_NETWORKS |->
      [name |-> "Tejas Networks", certification |-> "INDIGENOUS_VERIFIED",
       speciality |-> "Network Equipment", security_level |-> "SECRET",
       location |-> "Bangalore, Karnataka"] ]

generate_component_hash(component_data) == Sha256Hex(component_data)

generate_digital_signature(component_id, manufacturer, now) ==
  Prefix(Sha256Hex(FString3(component_id, manufacturer, IsoFormat(now))), 32)

sample_components ==
  << [component_id |-> "SHAKTI-C-001",
      component_name |-> "SHAKTI C-Class Processor 64-bit",
      manufacturer |-> "IIT_MADRAS", manufacturing_date |-> "2024-08-15",
      batch_id |-> "BATCH_SHAKTI_2024_Q3_001",
      indigenous_certification |-> TRUE, security_clearance |-> "TOP_SECRET"],
     [component_id |-> "HSM-SEC-001",
      component_name |-> "Hardware Security Module v2.1",
      manufacturer |-> "C_DAC", manufacturing_date |-> "2024-08-20",
      batch_id |-> "BATCH_HSM_2024_Q3_001",
      indigenous_certification |-> TRUE, security_clearance |-> "SECRET"],
     [component_id |-> "ENC-CASE-001",
      component_name |-> "Anti-Tamper Enclosure Military Grade",
      manufacturer |-> "DRDO_LABS", manufacturing_date |-> "2024-08-25",
      batch_id |-> "BATCH_ENC_2024_Q3_001",
      indigenous_certification |-> TRUE, security_clearance |-> "TOP_SECRET"],
     [component_id |-> "PWR-UPS-001",
      component_name |-> "Uninterruptible Power Supply 1000W",
      manufacturer |-> "BEL_INDIA", manufacturing_date |-> "2024-09-01",
      batch_id |-> "BATCH_PWR_2024_Q3_001",
      indigenous_certification |-> TRUE, security_clearance |-> "SECRET"],
     [component_id |-> "PCB-IND-001",
      component_name |-> "Indigenous PCB Board Multi-Layer",
      manufacturer |-> "COSMIC_CIRCUITS", manufacturing_date |-> "2024-09-05",
      batch_id |-> "BATCH_PCB_2024_Q3_001",
      indigenous_certification |-> TRUE, security_clearance |-> "CONFIDENTIAL"],
     [component_id |-> "NET-MOD-001",
      component_name |-> "Secure Network Interface Module",
      manufacturer |-> "TEJAS_NETWORKS", manufacturing_date |-> "2024-09-10",
      batch_id |-> "BATCH_NET_2024_Q3_001",
      indigenous_certification |-> TRUE, security_clearance |-> "SECRET"] >>

\* the dict db with db[k] = v assigned
DictSet(db, k, v) == [x \in DOMAIN db \cup {k} |-> IF x = k THEN v ELSE db[x]]

\* SupplyChainEntry(...) as built at the end of register_component
SupplyChainEntry(component_data, verification_hash, digital_signature, custody_chain) ==
  [component_id |-> component_data["component_id"],
   component_name |-> component_data["component_name"],
   manufacturer |-> component_data["manufacturer"],
   manufacturing_date |-> component_data["manufacturing_date"],
   batch_id |-> component_data["batch_id"],
   verification_hash |-> verification_hash,
   digital_signature |-> digital_signature,
   custody_chain |-> custody_chain,
   indigenous_certification |-> component_data["indigenous_certification"],
   security_clearance |-> component_data["security_clearance"]]

\* the hash taken over the manufacturing date in place of the batch id
RegistrationHash_OverDate(component_data) ==
  generate_component_hash(FString3(component_data["component_id"],
                                   component_data["manufacturer"],
                                   component_data["manufacturing_date"]))

\* hash_input and verification_hash of register_component
RegistrationHash(component_data) ==
  generate_component_hash(FString3(component_data["component_id"],
                                   component_data["manufacturer"],
                                   component_data["batch_id"]))

\* register_component: result [db, ret] of the call on registry db at instant now
register_component(db, component_data, now) ==
  LET early == MissingKeys(component_data,
                 <<"component_id", "manufacturer", "batch_id", "manufacturing_date">>)
      late == MissingKeys(component_data,
                 <<"component_name", "indigenous_certification", "security_clearance">>)
  IN IF early # <<>> THEN [db |-> db, ret |-> Raise(Head(early))]
     ELSE IF component_data["manufacturer"] \notin DOMAIN manufacturers_db
     THEN [db |-> db, ret |-> Raise(component_data["manufacturer"])]
     ELSE IF late # <<>> THEN [db |-> db, ret |-> Raise(Head(late))]
     ELSE
       LET verification_hash == RegistrationHash(component_data)
           digital_signature ==
             generate_digital_signature(component_data["component_id"],
                                        component_data["manufacturer"], now)
           custody_chain ==
             << [stage |-> "MANUFACTURING",
                 handler |-> component_data["manufacturer"],
                 timestamp |-> component_data["manufacturing_date"],
                 location |-> manufacturers_db[component_data["manufacturer"]]["location"],
                 action |-> "COMPONENT_CREATED",
                 verified_by |-> "QA_SYSTEM_AUTOMATED",
                 signature |-> Prefix(Sha256Hex(FStringMfg(component_data["component_id"])), 16)] >>
           entry == SupplyChainEntry(component_data, verification_hash,
                                     digital_signature, custody_chain)
       IN [db |-> DictSet(db, component_data["component_id"], entry),
           ret |-> Return(entry)]

\* the event dict put on the chain before its signature is attached
CustodyEvent_NoSignature(component_id, event_data, now, default_verifier) ==
  [stage |-> event_data["stage"],
   handler |-> event_data["handler"],
   timestamp |-> Get(event_data, "timestamp", IsoFormat(now)),
   location |-> event_data["location"],
   action |-> event_data["action"],
   verified_by |-> Get(event_data, "verified_by", default_verifier)]

\* the custody event add_custody_event builds from complete event data
CustodyEvent(component_id, event_data, now, default_verifier) ==
  [stage |-> event_data["stage"],
   handler |-> event_data["handler"],
   timestamp |-> Get(event_data, "timestamp", IsoFormat(now)),
   location |-> event_data["location"],
   action |-> event_data["action"],
   verified_by |-> Get(event_data, "verified_by", default_verifier),
   signature |-> Prefix(Sha256Hex(FString3(component_id, event_data["stage"],
                                           event_data["timestamp"])), 16)]

\* the method with the event signature computed before the membership test
add_custody_event_SignatureFirst(db, component_id, event_data, now) ==
  LET missing == MissingKeys(event_data,
                   <<"stage", "timestamp", "handler", "location", "action">>)
  IN IF MissingKeys(event_data, <<"stage", "timestamp">>) # << >>
     THEN [db |-> db, ret |-> Raise(Head(missing))]
     ELSE IF component_id \notin DOMAIN db THEN [db |-> db, ret |-> Return(FALSE)]
     ELSE IF missing # << >> THEN [db |-> db, ret |-> Raise(Head(missing))]
     ELSE [db |-> [db EXCEPT ![component_id].custody_chain =
                     Append(@, CustodyEvent(component_id, event_data, now,
                                            "SYSTEM_AUTOMATED"))],
           ret |-> Return(TRUE)]

\* add_custody_event: result [db, ret] of the call
add_custody_event(db, component_id, event_data, now) ==
  IF component_id \notin DOMAIN db THEN [db |-> db, ret |-> Return(FALSE)]
  ELSE
    LET missing == MissingKeys(event_data,
                     <<"stage", "timestamp", "handler", "location", "action">>)
    IN IF missing # <<>> THEN [db |-> db, ret |-> Raise(Head(missing))]
       ELSE
         LET custody_event == CustodyEvent(component_id, event_data, now, "SYSTEM_AUTOMATED")
         IN [db |-> [db EXCEPT ![component_id].custody_chain = Append(@, custody_event)],
             ret |-> Return(TRUE)]

\* hash_valid of verify_component_authenticity
hash_valid(component) ==
  generate_component_hash(FString3(component.component_id, component.manufacturer,
                                   component.batch_id))
    = component.verification_hash

\* the chain accepted only when it has more than one event
chain_valid_MoreThanOne(component) ==
  /\ Len(component.custody_chain) > 1
  /\ \A i \in 1..Len(component.custody_chain) :
       "signature" \in DOMAIN component.custody_chain[i]

\* chain_valid of verify_component_authenticity
chain_valid(component) ==
  /\ Len(component.custody_chain) > 0
  /\ \A i \in 1..Len(component.custody_chain) :
       "signature" \in DOMAIN component.custody_chain[i]

\* the verdict that adds the indigenous flag to the conjunction
overall_authentic_WithIndigenous(hashValid, manufacturerValid, indigenousValid, chainValid) ==
  hashValid /\ manufacturerValid /\ indigenousValid /\ chainValid

\* overall_authentic of verify_component_authenticity
overall_authentic(hashValid, manufacturerValid, indigenousValid, chainValid) ==
  hashValid /\ manufacturerValid /\ chainValid

\* the timestamp read from the first event of the chain in place of the last
last_update_FirstEvent(component) ==
  IF component.custody_chain # << >>
  THEN component.custody_chain[1].timestamp
  ELSE "N/A"

\* last_update of verify_component_authenticity
last_update(component) ==
  IF component.custody_chain # << >>
  THEN component.custody_chain[Len(component.custody_chain)].timestamp
  ELSE "N/A"

\* the dict returned for an id that is not registered
ComponentNotFound(component_id) ==
  [component_id |-> component_id,
   verification_status |-> "COMPONENT_NOT_FOUND",
   authentic |-> FALSE,
   indigenous |-> FALSE,
   security_cleared |-> FALSE,
   chain_integrity |-> FALSE,
   error |-> "Component not registered in database"]

\* the dict returned for a registered component
Verification(component_id, component) ==
  LET manufacturer_valid == component.manufacturer \in DOMAIN manufacturers_db
      indigenous_valid == component.indigenous_certification
      authentic == overall_authentic(hash_valid(component), manufacturer_valid,
                                     indigenous_valid, chain_valid(component))
  IN [component_id |-> component_id,
      component_name |-> component.component_name,
      manufacturer |-> Get(Get(manufacturers_db, component.manufacturer, EmptyDict),
                           "name", "UNKNOWN"),
      manufacturer_location |-> Get(Get(manufacturers_db, component.manufacturer, EmptyDict),
                                    "location", "UNKNOWN"),
      verification_status |-> IF authentic THEN "VERIFIED" ELSE "VERIFICATION_FAILED",
      authentic |-> authentic,
      indigenous |-> indigenous_valid,
      security_cleared |-> TRUE,
      security_clearance |-> component.security_clearance,
      chain_integrity |-> chain_valid(component),
      hash_verification |-> hash_valid(component),
      custody_events |-> Len(component.custody_chain),
      manufacturing_date |-> component.manufacturing_date,
      batch_id |-> component.batch_id,
      last_update |-> last_update(component),
      verification_hash |-> <<Prefix(component.verification_hash, 16), "...">>]

\* the method without its membership test: the subscript raises KeyError
verify_component_authenticity_Unguarded(db, component_id) ==
  IF component_id \notin DOMAIN db THEN Raise(component_id)
  ELSE Return(Verification(component_id, db[component_id]))

\* verify_component_authenticity: the outcome of the call
verify_component_authenticity(db, component_id) ==
  IF component_id \notin DOMAIN db THEN Return(ComponentNotFound(component_id))
  ELSE Return(Verification(component_id, db[component_id]))

\* f"{(part/total*100):.1f}%" if total > 0 else "0%": the digits before the
\* point, the digits after it (none in "0%") and the suffix
\* the rate formatted with one decimal also when nothing is stored
RateText_OneDecimalAlways(part, total) ==
  IF total > 0
  THEN LET tenths == (part * 2000 + total) \div (2 * total)
       IN [whole |-> tenths \div 10, decimals |-> <<tenths % 10>>, suffix |-> "%"]
  ELSE [whole |-> 0, decimals |-> <<0>>, suffix |-> "%"]

RateText(part, total) ==
  IF total > 0
  THEN LET tenths == (part * 2000 + total) \div (2 * total)
       IN [whole |-> tenths \div 10, decimals |-> <<tenths % 10>>, suffix |-> "%"]
  ELSE [whole |-> 0, decimals |-> << >>, suffix |-> "%"]

\* manufacturer_breakdown as built by the loop of get_supply_chain_report
ManufacturerBreakdown(db, directory) ==
  LET mfg_name(c) == Get(Get(directory, c.manufacturer, EmptyDict), "name", "UNKNOWN")
      names == {mfg_name(db[id]) : id \in DOMAIN db}
  IN [n \in names |-> Cardinality({id \in DOMAIN db : mfg_name(db[id]) = n})]

\* the three counted security clearance levels
ClearanceDistribution(db) ==
  [l \in {"TOP_SECRET", "SECRET", "CONFIDENTIAL"} |->
     Cardinality({id \in DOMAIN db : db[id].security_clearance = l})]

\* the count with the filter on the certification flag left out
indigenous_components_Unfiltered(db) ==
  Cardinality({comp_id \in DOMAIN db : TRUE})

\* indigenous_components of get_supply_chain_report (the same in both files)
indigenous_components(db) ==
  Cardinality({comp_id \in DOMAIN db : db[comp_id].indigenous_certification})

\* the dict get_supply_chain_report builds at instant now
SupplyChainReport(db, now) ==
  LET total_components == Cardinality(DOMAIN db)
      verified_components ==
        Cardinality({comp_id \in DOMAIN db :
                       verify_component_authenticity(db, comp_id).value.authentic})
  IN  [report_id |-> [prefix |-> "SCR_", seconds |-> EpochSeconds(now)],
       generated_at |-> StrFTime(now),
       summary |->
         [total_components |-> total_components,
          verified_components |-> verified_components,
          indigenous_components |-> indigenous_components(db),
          verification_rate |-> RateText(verified_components, total_components),
          indigenous_rate |-> RateText(indigenous_components(db), total_components)],
       manufacturer_breakdown |-> ManufacturerBreakdown(db, manufacturers_db),
       security_clearance_distribution |-> ClearanceDistribution(db),
       chain_integrity |-> "SECURE",
       compliance_status |-> "FULLY_COMPLIANT_BPRD_STANDARDS",
       audit_timestamp |-> IsoFormat(now)]

\* the method with the components it did not count as indigenous dropped
\* from the registry
get_supply_chain_report_Prunes(db, now) ==
  [db |-> [id \in {i \in DOMAIN db : db[i].indigenous_certification} |-> db[id]],
   ret |-> Return(SupplyChainReport(db, now))]

\* get_supply_chain_report: result [db, ret] of the call; the method only
\* reads self.components_db
get_supply_chain_report(db, now) ==
  [db |-> db, ret |-> Return(SupplyChainReport(db, now))]

(***************************************************************************)
(* supplychain_entry.py                                                    *)
(***************************************************************************)
Entry_manufacturers_db ==
  [ IIT_MADRAS |->
      [name |-> "IIT Madras", certification |-> "INDIGENOUS_VERIFIED",
       speciality |-> "SHAKTI Processors", security_level |-> "TOP_SECRET"],
    C_DAC |->
      [name |-> "Centre for Development of Advanced Computing",
       certification |-> "INDIGENOUS_VERIFIED",
       speciality |-> "Hardware Security Modules", security_level |-> "SECRET"],
    DRDO_LABS |->
      [name |-> "Defence Research and Development Organisation",
       certification |-> "INDIGENOUS_VERIFIED",
       speciality |-> "Anti-Tamper Enclosures", security_level |-> "TOP_SECRET"],
    BEL_INDIA |->
      [name |-> "Bharat Electronics Limited",
       certification |-> "INDIGENOUS_VERIFIED",
       speciality |-> "Power Systems", security_level |-> "SECRET"],
    COSMIC_CIRCUITS |->
      [name |-> "Cosmic Circuits Private Limited",
       certification |-> "INDIGENOUS_VERIFIED",
       speciality |-> "PCB Manufacturing", security_level |-> "CONFIDENTIAL"] ]

Entry_sample_components ==
  << [component_id |-> "SHAKTI-C-001",
      component_name |-> "SHAKTI C-Class Processor",
      manufacturer |-> "IIT_MADRAS", manufacturing_date |-> "2024-08-15",
      batch_id |-> "BATCH_SHAKTI_2024_Q3_001",
      indigenous_certification |-> TRUE, security_clearance |-> "TOP_SECRET"],
     [component_id |-> "HSM-SEC-001",
      component_name |-> "Hardware Security Module",
      manufacturer |-> "C_DAC", manufacturing_date |-> "2024-08-20",
      batch_id |-> "BATCH_HSM_2024_Q3_001",
      indigenous_certification |-> TRUE, security_clearance |-> "SECRET"],
     [component_id |-> "ENC-CASE-001",
      component_name |-> "Anti-Tamper Enclosure",
      manufacturer |-> "DRDO_LABS", manufacturing_date |-> "2024-08-25",
      batch_id |-> "BATCH_ENC_2024_Q3_001",
      indigenous_certification |-> TRUE, security_clearance |-> "TOP_SECRET"],
     [component_id |-> "PWR-UPS-001",
      component_name |-> "Uninterruptible Power Supply",
      manufacturer |-> "BEL_INDIA", manufacturing_date |-> "2024-09-01",
      batch_id |-> "BATCH_PWR_2024_Q3_001",
      indigenous_certification |-> TRUE, security_clearance |-> "SECRET"],
     [component_id |-> "PCB-IND-001",
      component_name |-> "Indigenous PCB Board",
      manufacturer |-> "COSMIC_CIRCUITS", manufacturing_date |-> "2024-09-05",
      batch_id |-> "BATCH_PCB_2024_Q3_001",
      indigenous_certification |-> TRUE, security_clearance |-> "CONFIDENTIAL"] >>

\* register_component of supplychain_entry.py: the directory is never read
Entry_register_component(db, component_data, now) ==
  LET missing == MissingKeys(component_data,
                   <<"component_id", "manufacturer", "batch_id", "manufacturing_date",
                     "component_name", "indigenous_certification", "security_clearance">>)
  IN IF missing # <<>> THEN [db |-> db, ret |-> Raise(Head(missing))]
     ELSE
       LET verification_hash == RegistrationHash(component_data)
           digital_signature ==
             generate_digital_signature(component_data["component_id"],
                                        component_data["manufacturer"], now)
           custody_chain ==
             << [stage |-> "MANUFACTURING",
                 handler |-> component_data["manufacturer"],
                 timestamp |-> component_data["manufacturing_date"],
                 location |-> "Manufacturing Facility",
                 action |-> "COMPONENT_CREATED",
                 verified_by |-> "QA_SYSTEM",
                 signature |-> Prefix(Sha256Hex(FStringMfg(component_data["component_id"])), 16)] >>
           entry == SupplyChainEntry(component_data, verification_hash,
                                     digital_signature, custody_chain)
       IN [db |-> DictSet(db, component_data["component_id"], entry),
           ret |-> Return(entry)]

\* add_custody_event of supplychain_entry.py
Entry_add_custody_event(db, component_id, event_data, now) ==
  IF component_id \notin DOMAIN db THEN [db |-> db, ret |-> Return(FALSE)]
  ELSE
    LET missing == MissingKeys(event_data,
                     <<"stage", "timestamp", "handler", "location", "action">>)
    IN IF missing # <<>> THEN [db |-> db, ret |-> Raise(Head(missing))]
       ELSE
         LET custody_event == CustodyEvent(component_id, event_data, now, "SYSTEM")
         IN [db |-> [db EXCEPT ![component_id].custody_chain = Append(@, custody_event)],
             ret |-> Return(TRUE)]

\* the dict supplychain_entry.py returns for an id that is not registered
Entry_ComponentNotFound(component_id) ==
  [component_id |-> component_id,
   verification_status |-> "COMPONENT_NOT_FOUND",
   authentic |-> FALSE,
   indigenous |-> FALSE,
   security_cleared |-> FALSE,
   chain_integrity |-> FALSE]

\* the dict supplychain_entry.py returns for a registered component
Entry_Verification(component_id, component) ==
  LET manufacturer_valid == component.manufacturer \in DOMAIN Entry_manufacturers_db
      indigenous_valid == component.indigenous_certification
      authentic == overall_authentic(hash_valid(component), manufacturer_valid,
                                     indigenous_valid, chain_valid(component))
  IN [component_id |-> component_id,
      component_name |-> component.component_name,
      manufacturer |-> Get(Get(Entry_manufacturers_db, component.manufacturer, EmptyDict),
                           "name", "UNKNOWN"),
      verification_status |-> IF authentic THEN "VERIFIED" ELSE "VERIFICATION_FAILED",
      authentic |-> authentic,
      indigenous |-> indigenous_valid,
      security_cleared |-> TRUE,
      security_clearance |-> component.security_clearance,
      chain_integrity |-> chain_valid(component),
      hash_verification |-> hash_valid(component),
      custody_events |-> Len(component.custody_chain),
      last_update |-> last_update(component)]

\* verify_component_authenticity of supplychain_entry.py
Entry_verify_component_authenticity(db, component_id) ==
  IF component_id \notin DOMAIN db THEN Return(Entry_ComponentNotFound(component_id))
  ELSE Return(Entry_Verification(component_id, db[component_id]))

\* the dict get_supply_chain_report of supplychain_entry.py builds
Entry_SupplyChainReport(db, now) ==
  LET total_components == Cardinality(DOMAIN db)
      verified_components ==
        Cardinality({comp_id \in DOMAIN db :
                       Entry_verify_component_authenticity(db, comp_id).value.authentic})
  IN  [report_id |-> [prefix |-> "SCR_", seconds |-> EpochSeconds(now)],
       generated_at |-> IsoFormat(now),
       summary |->
         [total_components |-> total_components,
          verified_components |-> verified_components,
          indigenous_components |-> indigenous_components(db),
          verification_rate |-> RateText(verified_components, total_components),
          indigenous_rate |-> RateText(indigenous_components(db), total_components)],
       manufacturer_breakdown |-> ManufacturerBreakdown(db, Entry_manufacturers_db),
       security_clearance_distribution |-> ClearanceDistribution(db),
       chain_integrity |-> "SECURE",
       compliance_status |-> "FULLY_COMPLIANT"]

\* get_supply_chain_report of supplychain_entry.py
Entry_get_supply_chain_report(db, now) ==
  [db |-> db, ret |-> Return(Entry_SupplyChainReport(db, now))]

(***************************************************************************)
(* The tracker object: which file it was built from decides the methods.   *)
(***************************************************************************)
Directory(m) ==
  IF m = "supply_chain_tracker" THEN manufacturers_db ELSE Entry_manufacturers_db

RegisterOp(m, db, component_data, now) ==
  IF m = "supply_chain_tracker" THEN register_component(db, component_data, now)
  ELSE Entry_register_component(db, component_data, now)

AddOp(m, db, component_id, event_data, now) ==
  IF m = "supply_chain_tracker" THEN add_custody_event(db, component_id, event_data, now)
  ELSE Entry_add_custody_event(db, component_id, event_data, now)

VerifyOp(m, db, component_id) ==
  IF m = "supply_chain_tracker" THEN verify_component_authenticity(db, component_id)
  ELSE Entry_verify_component_authenticity(db, component_id)

ReportOp(m, db, now) ==
  IF m = "supply_chain_tracker" THEN get_supply_chain_report(db, now)
  ELSE Entry_get_supply_chain_report(db, now)

\* the loop of initialize_sample_components over the remaining samples
RECURSIVE RegisterAll(_, _, _, _)
RegisterAll(m, db, samples, now) ==
  IF samples = << >> THEN db
  ELSE RegisterAll(m, RegisterOp(m, db, Head(samples), now).db, Tail(samples), now)

\* components_db when __init__ returns
initialize_sample_components(m) ==
  RegisterAll(m, EmptyDict,
              IF m = "supply_chain_tracker" THEN sample_components
              ELSE Entry_sample_components, 0)

(***************************************************************************)
(* Inputs of the calls.                                                    *)
(***************************************************************************)
NewProcessor ==
  [component_id |-> "NEW-001", component_name |-> "Test Processor",
   manufacturer |-> "IIT_MADRAS", manufacturing_date |-> "2025-01-10",
   batch_id |-> "BATCH_NEW_001", indigenous_certification |-> TRUE,
   security_clearance |-> "TOP_SECRET"]

ComponentInputs ==
  { NewProcessor,
    \* a manufacturer key that no directory has
    [NewProcessor EXCEPT !.manufacturer = "ACME_FOREIGN"],
    \* component data without a security clearance
    [k \in DOMAIN NewProcessor \ {"security_clearance"} |-> NewProcessor[k]],
    \* the id of the first sample component, registered again: another
    \* manufacturer, no indigenous certification, an uncounted clearance level
    [component_id |-> "SHAKTI-C-001",
     component_name |-> "SHAKTI C-Class Processor rev B",
     manufacturer |-> "C_DAC", manufacturing_date |-> "2024-10-01",
     batch_id |-> "BATCH_Q3_001", indigenous_certification |-> FALSE,
     security_clearance |-> "RESTRICTED"] }

QualityControl ==
  [stage |-> "QUALITY_CONTROL", handler |-> "BPRD_QC_TEAM",
   timestamp |-> "2025-03-01T10:00:00",
   location |-> "BPRD Testing Facility - New Delhi",
   action |-> "COMPONENT_TESTED_PASSED", verified_by |-> "QC_ENGINEER_L2"]

EventInputs ==
  { QualityControl,
    \* no verified_by
    [stage |-> "OPERATIONAL", handler |-> "SURVEILLANCE_SYSTEM_AUTO",
     timestamp |-> "2025-03-02T12:00:00",
     location |-> "Delhi Police HQ - Sector 1",
     action |-> "COMPONENT_ACTIVE_MONITORING"],
    \* the first event simulate_deployment_tracking passes: no timestamp
    [k \in DOMAIN QualityControl \ {"timestamp"} |-> QualityControl[k]],
    \* no handler
    [k \in DOMAIN QualityControl \ {"handler"} |-> QualityControl[k]] }

\* ids passed to verify_component_authenticity
IdInputs == {"SHAKTI-C-001", "NEW-001", "UNKNOWN-ID"}

\* (component_id, event_data) passed to add_custody_event: every event for
\* a sample component and for an id that is never registered (appends to
\* the id registered after construction are made by the concurrent callers)
AddInputs ==
  {"SHAKTI-C-001", "UNKNOWN-ID"} \X EventInputs

(***************************************************************************)
(* State machine: one action per public method.  call and ret record the   *)
(* latest call and its outcome.  Time does not stand still between calls:  *)
(* the instant a call reads from datetime.datetime.now() is the instant of *)
(* the call before it or a later one.                                      *)
(***************************************************************************)
Init ==
  /\ impl \in Impls
  /\ components_db = initialize_sample_components(impl)
  /\ clock = 0
  /\ call = [op |-> "__init__"]
  /\ ret = Return("None")
  /\ callers = EmptyDict

\* the instants the next call may read
Now == {t \in clock..(clock + 1) : t <= MaxClock}

RegisterComponent ==
  \E component_data \in ComponentInputs, now \in Now :
    LET r == RegisterOp(impl, components_db, component_data, now)
    IN /\ components_db' = r.db
       /\ ret' = r.ret
       /\ call' = [op |-> "register_component", component_data |-> component_data]
       /\ clock' = now
       /\ UNCHANGED <<impl, callers>>

AddCustodyEvent ==
  \E input \in AddInputs, now \in Now :
    LET component_id == input[1]
        event_data == input[2]
        r == AddOp(impl, components_db, component_id, event_data, now)
        success == r.ret.kind = "return" /\ r.ret.value
    IN /\ success => Len(components_db[component_id].custody_chain) < MaxChain
       /\ components_db' = r.db
       /\ ret' = r.ret
       /\ call' = [op |-> "add_custody_event", component_id |-> component_id,
                   event_data |-> event_data]
       /\ clock' = now
       /\ UNCHANGED <<impl, callers>>

VerifyComponentAuthenticity ==
  \E component_id \in IdInputs, now \in Now :
    /\ ret' = VerifyOp(impl, components_db, component_id)
    /\ call' = [op |-> "verify_component_authenticity", component_id |-> component_id]
    /\ clock' = now
    /\ UNCHANGED <<impl, components_db, callers>>

GetSupplyChainReport ==
  \E now \in Now :
    LET r == ReportOp(impl, components_db, now)
    IN /\ components_db' = r.db
       /\ ret' = r.ret
       /\ call' = [op |-> "get_supply_chain_report",
                   after_report |-> call.op = "get_supply_chain_report"]
       /\ clock' = now
       /\ UNCHANGED <<impl, callers>>

Next ==
  \/ RegisterComponent
  \/ AddCustodyEvent
  \/ VerifyComponentAuthenticity
  \/ GetSupplyChainReport

Spec == Init /\ [][Next]_vars

(***************************************************************************)
(* Properties.                                                             *)
(***************************************************************************)
\* custody_events reported by verify_component_authenticity(id)
CustodyEvents(db, id) == VerifyOp(impl, db, id).value.custody_events

\* the step is an add_custody_event call on id that returned True
AppendedTo(id) ==
  /\ call'.op = "add_custody_event"
  /\ call'.component_id = id
  /\ ret'.kind = "return"
  /\ ret'.value

\* C1: for every registered id the custody_events count reported by
\* verify_component_authenticity is one plus the number of add_custody_event
\* calls on that id that returned True: the count is 1 when the id enters the
\* registry, and afterwards every step raises it by one when the step is an
\* add_custody_event call on that id that returned True and leaves it alone
\* otherwise.
C1_CountIsOnePlusAppends ==
  [][\A id \in DOMAIN components_db' :
       IF id \in DOMAIN components_db
       THEN CustodyEvents(components_db', id)
              = CustodyEvents(components_db, id) + (IF AppendedTo(id) THEN 1 ELSE 0)
       ELSE CustodyEvents(components_db', id) = 1]_vars

\* C2: a component's custody chain is append-only: in every step the chain
\* stored under an id is a prefix of the chain stored under it afterwards.
C2_ChainAppendOnly ==
  [][\A id \in DOMAIN components_db :
       /\ id \in DOMAIN components_db'
       /\ IsPrefix(components_db[id].custody_chain,
                   components_db'[id].custody_chain)]_vars

\* C3: register_component with a component_id that is already registered
\* fails with an explicit signal and leaves the existing record unchanged.
C3_DuplicateRejected ==
  [][(/\ call'.op = "register_component"
      /\ "component_id" \in DOMAIN call'.component_data
      /\ call'.component_data.component_id \in DOMAIN components_db)
     => (/\ ret'.kind = "raise"
         /\ components_db' = components_db)]_vars

\* C4: register_component with a manufacturer key that the directory does
\* not have is rejected and stores nothing, so every stored component's
\* manufacturer key resolves in the directory.
C4_UnknownManufacturerRejected ==
  [][/\ (/\ call'.op = "register_component"
         /\ "manufacturer" \in DOMAIN call'.component_data
         /\ call'.component_data.manufacturer \notin DOMAIN Directory(impl))
        => (/\ ret'.kind = "raise"
            /\ components_db' = components_db)
     /\ \A id \in DOMAIN components_db' :
          components_db'[id].manufacturer \in DOMAIN Directory(impl)]_vars

\* C5: add_custody_event with an id that is not registered returns False
\* without raising and leaves the registry, and so its size and every stored
\* custody chain, unchanged, whatever the event data.
C5_AddToUnknownIdReturnsFalse ==
  [][(/\ call'.op = "add_custody_event"
      /\ call'.component_id \notin DOMAIN components_db)
     => (/\ ret'.kind = "return"
         /\ ret'.value = FALSE
         /\ components_db' = components_db)]_vars

\* an add_custody_event call on an unregistered id, with event data that
\* lacks a field, has returned False
C5_Witness ==
  /\ call.op = "add_custody_event"
  /\ call.component_id \notin DOMAIN components_db
  /\ "timestamp" \notin DOMAIN call.event_data
  /\ ret.kind = "return"
  /\ ret.value = FALSE

\* C6: add_custody_event on a registered id with event data that carries no
\* timestamp (and every other field) returns True and appends exactly one
\* event, whose timestamp is the current time.
C6_NoTimestampDefaultsToNow ==
  [][(/\ call'.op = "add_custody_event"
      /\ call'.component_id \in DOMAIN components_db
      /\ "timestamp" \notin DOMAIN call'.event_data
      /\ {"stage", "handler", "location", "action"} \subseteq DOMAIN call'.event_data)
     => LET before == components_db[call'.component_id].custody_chain
            after == components_db'[call'.component_id].custody_chain
        IN /\ ret'.kind = "return"
           /\ ret'.value = TRUE
           /\ Len(after) = Len(before) + 1
           /\ IsPrefix(before, after)
           /\ after[Len(after)].timestamp = IsoFormat(clock)]_vars

\* C7: hash_verification is true for every registered id: the stored
\* verification hash equals the hash recomputed from the stored id,
\* manufacturer key and batch id.
C7_HashAlwaysValid ==
  \A id \in DOMAIN components_db :
    /\ VerifyOp(impl, components_db, id).value.hash_verification
    /\ components_db[id].verification_hash
         = generate_component_hash(FString3(components_db[id].component_id,
                                            components_db[id].manufacturer,
                                            components_db[id].batch_id))

\* a component registered after construction, with custody events added,
\* has been verified and its hash found valid
C7_Witness ==
  /\ call.op = "verify_component_authenticity"
  /\ call.component_id \in DOMAIN components_db
  /\ components_db[call.component_id].batch_id = "BATCH_Q3_001"
  /\ Len(components_db[call.component_id].custody_chain) > 1
  /\ ret.value.hash_verification

\* C8: for every registered component verify_component_authenticity returns
\* authentic = hash valid AND manufacturer in the directory AND chain valid,
\* verification_status VERIFIED exactly when authentic; indigenous is the
\* stored flag, and the same component with the flag inverted gets the same
\* authentic value.
C8_AuthenticIsConjunction ==
  \A id \in DOMAIN components_db :
    LET c == components_db[id]
        v == VerifyOp(impl, components_db, id).value
        flipped == [components_db EXCEPT
                      ![id].indigenous_certification = ~ @]
    IN /\ v.authentic
            = (/\ c.verification_hash
                    = generate_component_hash(FString3(c.component_id, c.manufacturer,
                                                       c.batch_id))
               /\ c.manufacturer \in DOMAIN Directory(impl)
               /\ c.custody_chain # << >>
               /\ \A i \in 1..Len(c.custody_chain) :
                    "signature" \in DOMAIN c.custody_chain[i])
       /\ (v.verification_status = "VERIFIED") = v.authentic
       /\ v.verification_status \in {"VERIFIED", "VERIFICATION_FAILED"}
       /\ v.indigenous = c.indigenous_certification
       /\ VerifyOp(impl, flipped, id).value.authentic = v.authentic
       /\ VerifyOp(impl, flipped, id).value.indigenous = ~ v.indigenous

\* a registered component without the indigenous certification has been
\* verified and found authentic
C8_Witness ==
  /\ call.op = "verify_component_authenticity"
  /\ call.component_id \in DOMAIN components_db
  /\ ~ components_db[call.component_id].indigenous_certification
  /\ ret.value.authentic
  /\ ~ ret.value.indigenous
  /\ ret.value.verification_status = "VERIFIED"

\* C9: right after a successful register_component with a manufacturer key
\* of the directory, verify_component_authenticity reports authentic, the
\* supplied indigenous flag and one custody event, the MANUFACTURING /
\* COMPONENT_CREATED event; and in every later state that event is still the
\* first element of the component's chain.
C9_RegistrationEventStaysFirst ==
  [][/\ (/\ call'.op = "register_component"
         /\ ret'.kind = "return"
         /\ call'.component_data.manufacturer \in DOMAIN Directory(impl))
        => LET id == call'.component_data.component_id
               v == VerifyOp(impl, components_db', id).value
           IN /\ v.authentic
              /\ v.indigenous = call'.component_data.indigenous_certification
              /\ v.custody_events = 1
              /\ components_db'[id].custody_chain[1].stage = "MANUFACTURING"
              /\ components_db'[id].custody_chain[1].action = "COMPONENT_CREATED"
     /\ \A id \in DOMAIN components_db :
          /\ id \in DOMAIN components_db'
          /\ components_db'[id].custody_chain # << >>
          /\ components_db'[id].custody_chain[1]
               = components_db[id].custody_chain[1]]_vars

\* C10: verify_component_authenticity with an id that is not registered
\* returns, without raising, authentic = false, indigenous = false,
\* chain_integrity = false and verification_status COMPONENT_NOT_FOUND, and
\* leaves the registry unchanged.
C10_VerifyUnknownId ==
  [][(/\ call'.op = "verify_component_authenticity"
      /\ call'.component_id \notin DOMAIN components_db)
     => (/\ ret'.kind = "return"
         /\ ret'.value.authentic = FALSE
         /\ ret'.value.indigenous = FALSE
         /\ ret'.value.chain_integrity = FALSE
         /\ ret'.value.verification_status = "COMPONENT_NOT_FOUND"
         /\ components_db' = components_db)]_vars

\* verify_component_authenticity has been called with an unregistered id
C10_Witness ==
  /\ call.op = "verify_component_authenticity"
  /\ call.component_id \notin DOMAIN components_db
  /\ ret.kind = "return"
  /\ ret.value.verification_status = "COMPONENT_NOT_FOUND"

\* last_update reported by verify_component_authenticity(id)
LastUpdate(db, id) == VerifyOp(impl, db, id).value.last_update

\* C11: for every registered component last_update is the timestamp of the
\* event most recently appended by a successful add_custody_event, or the
\* manufacturing date when nothing has been appended since the registration:
\* a successful add_custody_event sets it to the timestamp of its event, a
\* successful register_component sets it to the manufacturing date, and
\* every other step leaves it alone.
C11_LastUpdateIsLatestEvent ==
  [][\A id \in DOMAIN components_db' :
       IF AppendedTo(id)
       THEN LastUpdate(components_db', id) = call'.event_data.timestamp
       ELSE IF /\ call'.op = "register_component"
               /\ ret'.kind = "return"
               /\ call'.component_data.component_id = id
       THEN LastUpdate(components_db', id) = call'.component_data.manufacturing_date
       ELSE \/ components_db' = components_db
            \/ /\ id \in DOMAIN components_db
               /\ LastUpdate(components_db', id) = LastUpdate(components_db, id)]_vars

\* two events have been appended to a component and last_update is the
\* timestamp of the second, which differs from the first one's
C11_Witness ==
  /\ call.op = "add_custody_event"
  /\ ret.kind = "return"
  /\ ret.value
  /\ LET chain == components_db[call.component_id].custody_chain
     IN /\ Len(chain) = 3
        /\ chain[2].timestamp # chain[3].timestamp
        /\ LastUpdate(components_db, call.component_id) = chain[3].timestamp
        /\ chain[3].timestamp = call.event_data.timestamp

\* the fields add_custody_event requires of an event
RequiredEventFields == {"stage", "handler", "location", "action"}

\* C12: add_custody_event on a registered id with event data lacking one of
\* stage, handler, location, action returns an explicit failure and leaves
\* the registry as it was, and no call of a registry operation ends in an
\* exception.
C12_MalformedEventRejected ==
  [][/\ ret'.kind # "raise"
     /\ (/\ call'.op = "add_custody_event"
         /\ call'.component_id \in DOMAIN components_db
         /\ ~(RequiredEventFields \subseteq DOMAIN call'.event_data))
        => /\ ret' = Return(FALSE)
           /\ components_db' = components_db]_vars

\* number of the ids in S, counted one id at a time
RECURSIVE CountIds(_)
CountIds(S) ==
  IF S = {} THEN 0
  ELSE 1 + CountIds(S \ {CHOOSE x \in S : TRUE})

\* C13: the summary of a report holds the number of stored components, the
\* number of those that verify_component_authenticity reports authentic and
\* the number of those whose certification flag is true; the last two never
\* exceed the first.
C13_SummaryCounts ==
  (call.op = "get_supply_chain_report" /\ ret.kind = "return") =>
    LET summary == ret.value.summary
        ids == DOMAIN components_db
        authentic(id) == VerifyOp(impl, components_db, id).value.authentic
        flagged(id) == components_db[id].indigenous_certification
    IN /\ summary.total_components = CountIds(ids)
       /\ summary.verified_components = CountIds({id \in ids : authentic(id)})
       /\ summary.indigenous_components = CountIds({id \in ids : flagged(id)})
       /\ summary.verified_components <= summary.total_components
       /\ summary.indigenous_components <= summary.total_components

\* a report on a registry holding a component that is not authentic and one
\* that is not indigenous: both counts are below the total
C13_Witness ==
  /\ call.op = "get_supply_chain_report"
  /\ ret.kind = "return"
  /\ ret.value.summary.total_components = Cardinality(DOMAIN components_db)
  /\ ret.value.summary.verified_components < ret.value.summary.total_components
  /\ ret.value.summary.indigenous_components < ret.value.summary.total_components

\* sum of the counts of a dict of counts
RECURSIVE SumCounts(_)
SumCounts(counts) ==
  IF DOMAIN counts = {} THEN 0
  ELSE LET k == CHOOSE x \in DOMAIN counts : TRUE
       IN counts[k] + SumCounts([j \in DOMAIN counts \ {k} |-> counts[j]])

\* C14: the keys of manufacturer_breakdown are exactly the display names of
\* the manufacturers that have a stored component, each name is mapped to
\* the number of stored components of that manufacturer, and the counts add
\* up to total_components.
C14_BreakdownByManufacturer ==
  (call.op = "get_supply_chain_report" /\ ret.kind = "return") =>
    LET breakdown == ret.value.manufacturer_breakdown
        ids == DOMAIN components_db
        stored == {components_db[id].manufacturer : id \in ids}
        directory == Directory(impl)
        of(m) == {id \in ids : components_db[id].manufacturer = m}
    IN /\ \A m \in stored :
            /\ m \in DOMAIN directory
            /\ directory[m].name \in DOMAIN breakdown
            /\ breakdown[directory[m].name] = CountIds(of(m))
       /\ DOMAIN breakdown = {directory[m].name : m \in stored \cap DOMAIN directory}
       /\ SumCounts(breakdown) = ret.value.summary.total_components

\* C15: the counts of security_clearance_distribution add up to
\* total_components, whatever clearance values the components were given.
C15_ClearanceCountsSumToTotal ==
  LET report == ReportOp(impl, components_db, clock).ret.value
  IN SumCounts(report.security_clearance_distribution)
       = report.summary.total_components

(***************************************************************************)
(* get_supply_chain_report as a function of the registry it reads: the     *)
(* tracker starts with the registry  self.components_db = {}  of the first *)
(* line of __init__, and the calls fill it.                                *)
(***************************************************************************)
InitReport ==
  /\ impl \in Impls
  /\ components_db = EmptyDict
  /\ clock = 0
  /\ call = [op |-> "__init__"]
  /\ ret = Return("None")
  /\ callers = EmptyDict

SpecReport == InitReport /\ [][Next]_vars

\* the text "0%"
ZeroPercent == [whole |-> 0, decimals |-> << >>, suffix |-> "%"]

\* C16: a report on a registry with no component returns, with
\* total_components 0 and with both rates the text "0%".
C16_EmptyRegistryReport ==
  (call.op = "get_supply_chain_report" /\ components_db = EmptyDict) =>
    /\ ret.kind = "return"
    /\ ret.value.summary.total_components = 0
    /\ ret.value.summary.verification_rate = ZeroPercent
    /\ ret.value.summary.indigenous_rate = ZeroPercent

\* a report has been made on the registry with no component
C16_Witness ==
  /\ call.op = "get_supply_chain_report"
  /\ DOMAIN components_db = {}
  /\ ret.kind = "return"
  /\ ret.value.summary.total_components = 0
  /\ ret.value.summary.verified_components = 0

\* C17: a report made directly after another report, with no
\* register_component and no add_custody_event in between, returns the same
\* summary counts, the same manufacturer_breakdown and the same
\* security_clearance_distribution, and a report leaves the registry as it
\* was.
C17_ReportIdempotent ==
  [][call'.op = "get_supply_chain_report" =>
       /\ components_db' = components_db
       /\ call.op = "get_supply_chain_report" =>
            LET first == ret.value
                second == ret'.value
            IN /\ second.summary.total_components = first.summary.total_components
               /\ second.summary.verified_components = first.summary.verified_components
               /\ second.summary.indigenous_components = first.summary.indigenous_components
               /\ second.manufacturer_breakdown = first.manufacturer_breakdown
               /\ second.security_clearance_distribution
                    = first.security_clearance_distribution]_vars

\* a second report directly after a first one, made at a later instant on a
\* registry that has grown since construction
C17_Witness ==
  /\ call.op = "get_supply_chain_report"
  /\ call.after_report
  /\ ret.kind = "return"
  /\ ret.value.report_id.seconds = EpochSeconds(MaxClock)
  /\ "NEW-001" \in DOMAIN components_db
  /\ ret.value.summary.total_components = Cardinality(DOMAIN components_db)

(***************************************************************************)
(* Concurrent callers.  The class takes no lock, so calls made from        *)
(* several threads interleave between their accesses to                    *)
(* self.components_db.  callers maps every caller to its call, the         *)
(* statement it is at (pc), its local variables and its outcome.  A caller *)
(* of add_custody_event keeps in  custody_event  the event it has built,   *)
(* and holds in  component  a reference to an entry                        *)
(* object: "stored" while that object is the one the registry holds under  *)
(* the id, "detached" (with the object's content) once register_component  *)
(* has put another object under the id.                                    *)
(***************************************************************************)
Pending == [kind |-> "pending"]

AddCall(component_id, event_data) ==
  [op |-> "add_custody_event", component_id |-> component_id,
   event_data |-> event_data, pc |-> "check",
   component |-> [ref |-> "none"], custody_event |-> EmptyDict, ret |-> Pending]

RegisterCall(component_data) ==
  [op |-> "register_component", component_data |-> component_data,
   pc |-> "build", ret |-> Pending]

\* the event of EventInputs that has no verified_by
Operational == CHOOSE e \in EventInputs : e.stage = "OPERATIONAL"

\* the component data of ComponentInputs with the id of a sample component
SampleAgain == CHOOSE c \in ComponentInputs : c.component_id = "SHAKTI-C-001"

\* the calls in flight: two appends, on one id or on two, and a registration
\* of a new id or of the id appended to
ConcurrentCalls ==
  { [adder1 |-> AddCall("SHAKTI-C-001", QualityControl),
     adder2 |-> AddCall(id, Operational),
     registrar |-> RegisterCall(component_data)] :
      id \in {"SHAKTI-C-001", "NEW-001"},
      component_data \in {NewProcessor, SampleAgain} }

Adders == {"adder1", "adder2"}

Registrars == {"registrar"}

InitConcurrent ==
  /\ impl \in Impls
  /\ components_db = initialize_sample_components(impl)
  /\ clock = 0
  /\ call = [op |-> "__init__"]
  /\ ret = Return("None")
  /\ callers \in ConcurrentCalls

\* the entry object a caller of add_custody_event holds
Held(c) ==
  IF c.component.ref = "stored" THEN components_db[c.component_id]
  ELSE c.component.entry

\* if component_id not in self.components_db: return False
AddCheck ==
  \E t \in Adders :
    /\ callers[t].pc = "check"
    /\ callers' = [callers EXCEPT ![t] =
         IF @.component_id \in DOMAIN components_db
         THEN [@ EXCEPT !.pc = "load"]
         ELSE [@ EXCEPT !.pc = "done", !.ret = Return(FALSE)]]
    /\ UNCHANGED <<impl, components_db, clock, call, ret>>

\* component = self.components_db[component_id]
AddLoad ==
  \E t \in Adders :
    /\ callers[t].pc = "load"
    /\ callers' = [callers EXCEPT ![t].pc = "append",
                                  ![t].component = [ref |-> "stored"]]
    /\ UNCHANGED <<impl, components_db, clock, call, ret>>

\* the event is built and component.custody_chain.append(custody_event) puts
\* it on the chain of the object held: the rest of the method, applied to a
\* registry that holds that object
AddAppend ==
  \E t \in Adders, now \in Now :
    LET c == callers[t]
        r == AddOp(impl, [id \in {c.component_id} |-> Held(c)],
                   c.component_id, c.event_data, now)
        after == r.db[c.component_id]
    IN /\ c.pc = "append"
       /\ components_db' =
            IF c.component.ref = "stored"
            THEN [components_db EXCEPT ![c.component_id] = after]
            ELSE components_db
       /\ callers' = [u \in DOMAIN callers |->
            IF u = t
            THEN [c EXCEPT !.pc = "done", !.ret = r.ret,
                           !.component = [ref |-> "none"],
                           !.custody_event =
                              IF r.ret = Return(TRUE)
                              THEN after.custody_chain[Len(after.custody_chain)]
                              ELSE @]
            ELSE IF /\ c.component.ref = "detached"
                    /\ callers[u].op = "add_custody_event"
                    /\ callers[u].component_id = c.component_id
                    /\ callers[u].component.ref = "detached"
            \* the other caller holds the same detached object
            THEN [callers[u] EXCEPT !.component.entry = after]
            ELSE callers[u]]
       /\ clock' = now
       /\ UNCHANGED <<impl, call, ret>>

\* lines up to the construction of SupplyChainEntry: the entry object is
\* built, chain included, before the registry is touched; the method is
\* applied to an empty registry to obtain the object
RegisterBuild ==
  \E t \in Registrars, now \in Now :
    LET c == callers[t]
        r == RegisterOp(impl, EmptyDict, c.component_data, now)
    IN /\ c.pc = "build"
       /\ callers' = [callers EXCEPT ![t] =
            IF r.ret.kind = "raise"
            THEN [op |-> c.op, component_data |-> c.component_data,
                  pc |-> "done", ret |-> r.ret]
            ELSE [op |-> c.op, component_data |-> c.component_data,
                  pc |-> "store", ret |-> Pending,
                  entry |-> r.db[c.component_data.component_id],
                  component_hash |-> r.ret]]
       /\ clock' = now
       /\ UNCHANGED <<impl, components_db, call, ret>>

\* self.components_db[entry.component_id] = entry; return component_hash.
\* The object the registry held under the id, if any, is no longer reachable
\* through the registry: the callers that hold it keep it as a detached one.
RegisterStore ==
  \E t \in Registrars :
    LET c == callers[t]
        id == c.entry.component_id
    IN /\ c.pc = "store"
       /\ components_db' = DictSet(components_db, id, c.entry)
       /\ callers' = [u \in DOMAIN callers |->
            IF u = t
            THEN [op |-> c.op, component_data |-> c.component_data,
                  pc |-> "done", ret |-> c.component_hash]
            ELSE IF /\ callers[u].op = "add_custody_event"
                    /\ callers[u].component_id = id
                    /\ callers[u].component.ref = "stored"
            THEN [callers[u] EXCEPT
                    !.component = [ref |-> "detached", entry |-> components_db[id]]]
            ELSE callers[u]]
       /\ UNCHANGED <<impl, clock, call, ret>>

NextConcurrent ==
  \/ AddCheck
  \/ AddLoad
  \/ AddAppend
  \/ RegisterBuild
  \/ RegisterStore

SpecConcurrent == InitConcurrent /\ [][NextConcurrent]_vars

\* number of positions of the sequence at which the value stands
Occurrences(seq, value) == Cardinality({i \in 1..Len(seq) : seq[i] = value})

\* C18: when the concurrent calls have all returned, the event of every
\* add_custody_event call that returned True stands exactly once in the
\* chain the registry holds under its id, and the append of a call changes
\* the chain of no other id.
C18_NoLostAppend ==
  [][/\ (\A t \in DOMAIN callers' : callers'[t].pc = "done") =>
          \A t \in Adders :
            callers'[t].ret = Return(TRUE) =>
              Occurrences(components_db'[callers'[t].component_id].custody_chain,
                          callers'[t].custody_event) = 1
     /\ \A t \in Adders :
          (callers[t].pc = "append" /\ callers'[t].pc = "done") =>
            \A id \in DOMAIN components_db \ {callers[t].component_id} :
              components_db'[id] = components_db[id]]_vars

\* the fields of a custody event
EventFields ==
  {"stage", "handler", "timestamp", "location", "action", "verified_by", "signature"}

\* C19: whatever the interleaving of the concurrent register_component and
\* add_custody_event calls, every component the registry holds has a chain
\* of at least one event and every event of it has all seven fields: a
\* reader sees no component without its first event and no event half built.
C19_NoPartialState ==
  \A id \in DOMAIN components_db :
    LET chain == components_db[id].custody_chain
    IN /\ Len(chain) >= 1
       /\ \A i \in 1..Len(chain) : DOMAIN chain[i] = EventFields

\* in the middle of the calls: one append is done and visible, the other
\* caller has read the entry and not yet appended, and the registration has
\* built its entry and not yet stored it
C19_Witness ==
  /\ callers # EmptyDict
  /\ callers["adder1"].pc = "done"
  /\ callers["adder1"].ret = Return(TRUE)
  /\ Len(components_db["SHAKTI-C-001"].custody_chain) = 2
  /\ callers["adder2"].pc = "append"
  /\ callers["registrar"].pc = "store"
  /\ callers["registrar"].entry.component_id = "NEW-001"
  /\ "NEW-001" \notin DOMAIN components_db

\* C20: every registered component has a chain that is not empty, every
\* event of the chain has a signature that is not empty, and so
\* verify_component_authenticity reports chain_integrity true for it.
C20_ChainIntegrityAlways ==
  \A id \in DOMAIN components_db :
    LET chain == components_db[id].custody_chain
    IN /\ Len(chain) >= 1
       /\ \A i \in 1..Len(chain) :
            /\ "signature" \in DOMAIN chain[i]
            /\ chain[i].signature.digits > 0
       /\ VerifyOp(impl, components_db, id).value.chain_integrity

\* a component registered after construction has been verified with only
\* its manufacturing event, and another component has a chain of full length
C20_Witness ==
  /\ call.op = "verify_component_authenticity"
  /\ call.component_id = "NEW-001"
  /\ "NEW-001" \in DOMAIN components_db
  /\ Len(components_db["NEW-001"].custody_chain) = 1
  /\ ret.value.chain_integrity
  /\ \E id \in DOMAIN components_db : Len(components_db[id].custody_chain) = MaxChain

====
